---- MODULE Spec2Model ----
(***************************************************************************)
(* Genesis import/export of the EVM module (x/evm/genesis.go) together     *)
(* with the virtual frontier contract types it relies on                   *)
(* (x/evm/types/virtual_frontier_bank_contract.go and the ValidateBasic    *)
(* behaviour pinned down by virtual_frontier_contract_test.go).            *)
(*                                                                         *)
(* The keeper, the account keeper, the bank keeper and the chain-id        *)
(* helpers are collaborators whose code is not part of the sources at      *)
(* hand; their definitions below follow the written specification and are  *)
(* marked as such.                                                         *)
(***************************************************************************)
EXTENDS Integers, Sequences, FiniteSets, TLC

(***************************************************************************)
(* Bounds of the model.                                                    *)
(***************************************************************************)
\* largest sequence number the deployer module account starts with
MaxSeq == 2
\* longest list of virtual frontier contracts in a genesis state
MaxVFC == 2
\* longest list of accounts in a genesis state
MaxAccounts == 2
\* longest call payload handed to GetMethodFromSignature
MaxPayload == 5

(***************************************************************************)
(* Hex text.  A text is a sequence of characters; a character is a number: *)
(* 0..15 is the lowercase hex digit of that value ('0'..'9','a'..'f'),     *)
(* 26..31 is the uppercase letter 'A'..'F' (value + 16), and NonHexChar    *)
(* is any character that is no hex digit.                                  *)
(***************************************************************************)
NonHexChar == 99

\* encoding/hex fromHexChar: the value of a hex digit, -1 for any other character
FromHexChar(c) ==
    IF c \in 0..15 THEN c
    ELSE IF c \in 26..31 THEN c - 16
    ELSE -1

\* strings.ToLower on a hex text
ToLower(s) == [i \in 1..Len(s) |-> IF s[i] \in 26..31 THEN s[i] - 16 ELSE s[i]]

\* hex.EncodeToString / common.Bytes2Hex: two lowercase digits per byte
RECURSIVE EncodeToString(_)
EncodeToString(bz) ==
    IF Len(bz) = 0 THEN <<>>
    ELSE <<bz[1] \div 16, bz[1] % 16>> \o EncodeToString(Tail(bz))

Bytes2Hex(bz) == EncodeToString(bz)

\* common.Hex2Bytes: hex.DecodeString with the error dropped, which leaves the
\* bytes decoded before the first bad character (or before a dangling digit)
RECURSIVE Hex2Bytes(_)
Hex2Bytes(s) ==
    IF Len(s) < 2 THEN <<>>
    ELSE IF FromHexChar(s[1]) < 0 \/ FromHexChar(s[2]) < 0 THEN <<>>
    ELSE <<16 * FromHexChar(s[1]) + FromHexChar(s[2])>> \o Hex2Bytes(SubSeq(s, 3, Len(s)))

(***************************************************************************)
(* crypto.Keccak256Hash, idealised as an injective function: the hash of a *)
(* byte string is a value that carries it.                                 *)
(***************************************************************************)
Keccak256Hash(bz) == <<"keccak", bz>>

EmptyCodeHash == Keccak256Hash(<<>>)

(***************************************************************************)
(* VFBankContractMethod (virtual_frontier_bank_contract.go)                *)
(***************************************************************************)
VFBCmUnknown == 0
VFBCmName == 1
VFBCmSymbol == 2
VFBCmDecimals == 3
VFBCmTotalSupply == 4
VFBCmBalanceOf == 5
VFBCmTransfer == 6

\* the case labels of GetMethodFromSignature, as hex texts
SigName == <<0, 6, 15, 13, 13, 14, 0, 3>>          \* "06fdde03"
SigSymbol == <<9, 5, 13, 8, 9, 11, 4, 1>>          \* "95d89b41"
SigDecimals == <<3, 1, 3, 12, 14, 5, 6, 7>>        \* "313ce567"
SigTotalSupply == <<1, 8, 1, 6, 0, 13, 13, 13>>    \* "18160ddd"
SigBalanceOf == <<7, 0, 10, 0, 8, 2, 3, 1>>        \* "70a08231"
\* "a9059cba": the label of transfer with its last digit mistyped
SigTransferMistyped == <<10, 9, 0, 5, 9, 12, 11, 10>>
SigTransfer == <<10, 9, 0, 5, 9, 12, 11, 11>>      \* "a9059cbb"

\* the signature the switch of GetMethodFromSignature is taken on
SignatureOf(input) == ToLower(EncodeToString(SubSeq(input, 1, 4)))

\* the guard of GetMethodFromSignature with <= for <
TooShortOffByOne(input) == Len(input) <= 4

\* the guard of GetMethodFromSignature
TooShort(input) == Len(input) < 4

\* VFBankContractMetadata.GetMethodFromSignature: (method, found)
GetMethodFromSignature(input) ==
    LET sig == SignatureOf(input) IN
    IF TooShort(input) THEN [method |-> VFBCmUnknown, found |-> FALSE]
    ELSE IF sig = SigName THEN [method |-> VFBCmName, found |-> TRUE]
    ELSE IF sig = SigSymbol THEN [method |-> VFBCmSymbol, found |-> TRUE]
    ELSE IF sig = SigDecimals THEN [method |-> VFBCmDecimals, found |-> TRUE]
    ELSE IF sig = SigTotalSupply THEN [method |-> VFBCmTotalSupply, found |-> TRUE]
    ELSE IF sig = SigBalanceOf THEN [method |-> VFBCmBalanceOf, found |-> TRUE]
    ELSE IF sig = SigTransfer THEN [method |-> VFBCmTransfer, found |-> TRUE]
    ELSE [method |-> VFBCmUnknown, found |-> FALSE]

(***************************************************************************)
(* Addresses.  An address is a number: 0 is the all-zero address.  An      *)
(* address text is written down by what the checks of the code can see of  *)
(* it: whether it starts with 0x, how many bytes its hex digits make,      *)
(* whether it holds an uppercase hex letter, and which address the digits  *)
(* spell.                                                                  *)
(***************************************************************************)
AddressLength == 20

ZeroAddress == 0

\* the address a text of more than 20 bytes is cropped to
CroppedAddress == 99

\* "0x" followed by 40 lowercase hex digits
LowerHex(a) == [prefix |-> TRUE, nbytes |-> AddressLength, upper |-> FALSE, id |-> a]

\* common.Address.String(): the EIP-55 form, mixed case unless no letter occurs
AddressString(a) == [prefix |-> TRUE, nbytes |-> AddressLength, upper |-> a # ZeroAddress, id |-> a]

\* common.HexToAddress: prefix and case are ignored, a short text is left-padded
\* (the empty text gives the zero address), a long one is cropped from the left
HexToAddress(t) ==
    IF t.nbytes = 0 THEN ZeroAddress
    ELSE IF t.nbytes > AddressLength THEN CroppedAddress
    ELSE t.id

\* common.IsHexAddress: 40 hex digits after an optional 0x
IsHexAddress(t) == t.nbytes = AddressLength

\* crypto.CreateAddress(deployer, nonce): injective in the nonce, never the zero address
FirstContractAddress == 10

CreateAddress(nonce) == FirstContractAddress + nonce

(***************************************************************************)
(* Storage keys and values (common.Hash).  A hash text is the number it    *)
(* spells and whether it is written with all 64 digits; common.HexToHash   *)
(* left-pads a short text, Hash.String() always writes 64 digits.          *)
(***************************************************************************)
HexToHash(t) == t.n

HashString(h) == [n |-> h, full |-> TRUE]

(***************************************************************************)
(* VirtualFrontierContract and VFBankContractMetadata                      *)
(***************************************************************************)
VirtualFrontierContractTypeUnknown == 0
VirtualFrontierContractTypeBankContract == 1

NoError == "ok"

\* VFBankContractMetadata.ValidateBasic
MetadataValidateBasicAnyDenom(m) == NoError

\* ValidateBasic of the metadata asking for a display name as well
MetadataValidateBasicWithDisplayName(m) ==
    IF Len(m.MinDenom) = 0 \/ Len(m.DisplayName) = 0
    THEN "min denom cannot be empty" ELSE NoError

MetadataValidateBasic(m) ==
    IF Len(m.MinDenom) = 0 THEN "min denom cannot be empty" ELSE NoError

\* VirtualFrontierContract.ContractAddress
ContractAddress(c) == HexToAddress(c.Address)

\* ValidateBasic without the rule on the case of the address text
ValidateBasicAnyCase(c) ==
    IF c.Address = LowerHex(ZeroAddress) THEN "nil address"
    ELSE IF ~IsHexAddress(c.Address) THEN "malformed address"
    ELSE IF ~c.Address.prefix THEN "address must start with 0x"
    ELSE IF c.Type # VirtualFrontierContractTypeBankContract THEN "type must be specified"
    ELSE IF MetadataValidateBasic(c.Metadata) # NoError THEN "metadata does not pass validation"
    ELSE NoError

\* ValidateBasic taking the zero value of the type for a type that is set
ValidateBasicZeroTypeAccepted(c) ==
    IF c.Address = LowerHex(ZeroAddress) THEN "nil address"
    ELSE IF ~IsHexAddress(c.Address) THEN "malformed address"
    ELSE IF ~c.Address.prefix THEN "address must start with 0x"
    ELSE IF c.Address.upper THEN "address must be in lowercase"
    ELSE IF c.Type \notin {VirtualFrontierContractTypeUnknown, VirtualFrontierContractTypeBankContract}
    THEN "type must be specified"
    ELSE IF MetadataValidateBasic(c.Metadata) # NoError THEN "metadata does not pass validation"
    ELSE NoError

\* VirtualFrontierContract.ValidateBasic: the first rule violated, in the order
\* nil address, malformed address (length, prefix, case), type, metadata
ValidateBasic(c) ==
    IF c.Address = LowerHex(ZeroAddress) THEN "nil address"
    ELSE IF ~IsHexAddress(c.Address) THEN "malformed address"
    ELSE IF ~c.Address.prefix THEN "address must start with 0x"
    ELSE IF c.Address.upper THEN "address must be in lowercase"
    ELSE IF c.Type # VirtualFrontierContractTypeBankContract THEN "type must be specified"
    ELSE IF MetadataValidateBasic(c.Metadata) # NoError THEN "metadata does not pass validation"
    ELSE NoError

(***************************************************************************)
(* The state.  The chain id, the module accounts and the native accounts   *)
(* belong to the node the module runs in and InitGenesis never writes      *)
(* them; the deployer's sequence number and the bank's denom metadata are  *)
(* native state InitGenesis may write; the rest is the module's own store. *)
(***************************************************************************)
VARIABLES
    chainID,        \* the deployment profile of ctx.ChainID()
    moduleAccounts, \* the names of the module accounts that are set
    deployerSeq,    \* sequence number of the VFC deployer module account
    bankMeta,       \* bank denom metadata: denom -> "none" | "valid" | "invalid"
    params,         \* the module's parameters
    codeStore,      \* code storage: set of <<code hash, code>>, one per hash
    stateStore,     \* contract storage: set of <<address, key, value>>, one per key
    vfcStore,       \* the virtual frontier contracts, in iteration order
    panic,          \* how the last InitGenesis ended: NoPanic or the panic's message
    genesis,        \* the genesis state the last InitGenesis was given, if it has run
    exported,       \* what ExportGenesis returned, if it ran last
    vfcInput,       \* the contract ValidateBasic is applied to, if any
    vfcError,       \* what ValidateBasic returned, once it has
    callInput,      \* the payload GetMethodFromSignature is applied to
    callResult,     \* what GetMethodFromSignature returned, once it has
    pairInput,      \* two calls of GetMethodFromSignature: receivers and payloads
    pairResult      \* what the two calls returned, once they have

vars ==
    <<chainID, moduleAccounts, deployerSeq, bankMeta, params, codeStore, stateStore,
      vfcStore, panic, genesis, exported, vfcInput, vfcError, callInput, callResult,
      pairInput, pairResult>>

NoPanic == "none"

ModuleName == "evm"

ModuleVirtualFrontierContractDeployerName == "vfc_deployer"

\* utils.IsOneOfDymensionChains(ctx)
IsOneOfDymensionChains == chainID = "dymension"

\* utils.IsEthermintDevChain(ctx)
IsEthermintDevChain == chainID = "ethermint-dev"

ChainIDs == {"dymension", "ethermint-dev", "other"}

(***************************************************************************)
(* The native accounts of the node (accountKeeper.GetAccount):             *)
(*   1  an EthAccount whose code hash is the hash of the code 0x60         *)
(*   2  an EthAccount with the hash of the empty code                      *)
(*   3  a base account, which is no EthAccount                             *)
(*   any other address holds no account                                    *)
(***************************************************************************)
ContractCode == <<96>>

GetAccount(a) ==
    CASE a = 1 -> [kind |-> "eth", codeHash |-> Keccak256Hash(ContractCode)]
      [] a = 2 -> [kind |-> "eth", codeHash |-> EmptyCodeHash]
      [] a = 3 -> [kind |-> "base", codeHash |-> EmptyCodeHash]
      [] OTHER -> [kind |-> "nil", codeHash |-> EmptyCodeHash]

\* the addresses accountKeeper.IterateAccounts visits, in its order
AccountAddresses == <<1, 2, 3>>

\* the state InitGenesis and ExportGenesis work on, as one value
State ==
    [params |-> params, codeStore |-> codeStore, stateStore |-> stateStore,
     vfcStore |-> vfcStore, bankMeta |-> bankMeta, deployerSeq |-> deployerSeq,
     panic |-> NoPanic]

Panic(s, msg) == [s EXCEPT !.panic = msg]

(***************************************************************************)
(* Keeper operations                                                       *)
(***************************************************************************)
\* the zero value of types.Params, read before any SetParams
ZeroParams == [EnableCreate |-> FALSE, EvmDenom |-> ""]

\* Params.Validate, as far as the genesis state of the model can fail it
ParamsValid(p) == p.EvmDenom # ""

\* keeper.SetCode
SetCode(store, codeHash, code) ==
    {e \in store : e[1] # codeHash} \cup {<<codeHash, code>>}

\* keeper.GetCode: the code stored under the hash, empty when there is none
GetCode(store, codeHash) ==
    IF \E e \in store : e[1] = codeHash
    THEN (CHOOSE e \in store : e[1] = codeHash)[2]
    ELSE <<>>

\* keeper.SetState
SetState(store, addr, key, value) ==
    {e \in store : ~(e[1] = addr /\ e[2] = key)} \cup {<<addr, key, value>>}

\* keeper.GetAccountStorage: the entries of the address in key order
RECURSIVE StorageInKeyOrder(_)
StorageInKeyOrder(entries) ==
    IF entries = {} THEN <<>>
    ELSE LET first == CHOOSE e \in entries : \A o \in entries : e[2] <= o[2]
         IN <<[Key |-> HashString(first[2]), Value |-> HashString(first[3])]>>
            \o StorageInKeyOrder(entries \ {first})

GetAccountStorage(store, addr) == StorageInKeyOrder({e \in store : e[1] = addr})

\* keeper.GetVirtualFrontierBankContractAddressByDenom: an active bank contract
\* of the denom among the records
IsActiveBankContractOf(c, denom) ==
    /\ c.Active
    /\ c.Type = VirtualFrontierContractTypeBankContract
    /\ c.Metadata.MinDenom = denom

FoundBankContractByDenom(store, denom) ==
    \E i \in 1..Len(store) : IsActiveBankContractOf(store[i], denom)

\* keeper.HasVirtualFrontierContract
HasVirtualFrontierContract(store, addr) ==
    \E i \in 1..Len(store) : ContractAddress(store[i]) = addr

\* the registry's create: the record-level gate, then the address must be new
CreateError(store, c) ==
    IF ValidateBasic(c) # NoError THEN ValidateBasic(c)
    ELSE IF HasVirtualFrontierContract(store, ContractAddress(c)) THEN "duplicate address"
    ELSE NoError

\* keeper.GenesisImportVirtualFrontierContracts: each record through create, in
\* the order given, the deployer's sequence number left alone; the first error
\* ends the import
RECURSIVE GenesisImportVirtualFrontierContracts(_, _)
GenesisImportVirtualFrontierContracts(s, contracts) ==
    IF Len(contracts) = 0 THEN [state |-> s, err |-> NoError]
    ELSE LET err == CreateError(s.vfcStore, Head(contracts)) IN
         IF err # NoError THEN [state |-> s, err |-> err]
         ELSE GenesisImportVirtualFrontierContracts(
                  [s EXCEPT !.vfcStore = Append(@, Head(contracts))], Tail(contracts))

\* keeper.DeployNewVirtualFrontierBankContract: the address comes from the deployer's
\* sequence number, and the record and the incremented sequence number are
\* written together or not at all
DeployNewVirtualFrontierBankContract(s, contract, meta) ==
    LET c == [Address |-> LowerHex(CreateAddress(s.deployerSeq)),
              Active |-> contract.Active,
              Type |-> VirtualFrontierContractTypeBankContract,
              Metadata |-> meta]
        err == CreateError(s.vfcStore, c)
    IN IF err # NoError THEN [state |-> s, err |-> err]
       ELSE [state |-> [s EXCEPT !.vfcStore = Append(@, c),
                                 !.deployerSeq = @ + 1],
             err |-> NoError]

(***************************************************************************)
(* InitGenesis (genesis.go), step by step.  Every step takes the state the *)
(* steps before it left and the genesis state; a panic ends the call and   *)
(* leaves what was written before it.                                      *)
(***************************************************************************)
\* InitGenesis without the check of lines 43-45
CheckEnableCreateLeftOut(s, data) == s

\* lines 43-45: create must stay disabled on Dymension chains
CheckEnableCreate(s, data) ==
    IF IsOneOfDymensionChains /\ data.Params.EnableCreate
    THEN Panic(s, "enable create is not allowed on Dymension chains")
    ELSE s

\* lines 49-52
SetParams(s, data) ==
    IF ~ParamsValid(data.Params) THEN Panic(s, "error setting params")
    ELSE [s EXCEPT !.params = data.Params]

\* lines 54-60 without the check of the deployer's module account (58-60)
CheckModuleAccountsEvmOnly(s, data) ==
    IF ModuleName \notin moduleAccounts
    THEN Panic(s, "the EVM module account has not been set")
    ELSE s

\* lines 54-60: both module accounts must be set
CheckModuleAccounts(s, data) ==
    IF ModuleName \notin moduleAccounts
    THEN Panic(s, "the EVM module account has not been set")
    ELSE IF ModuleVirtualFrontierContractDeployerName \notin moduleAccounts
    THEN Panic(s, "the VFC deployer account has not been set")
    ELSE s

\* line 83 without the exemption of the empty code text
CodeHashMismatchAlways(account, ethAcct) ==
    ethAcct.codeHash # Keccak256Hash(Hex2Bytes(account.Code))

\* line 83: the code hash check, skipped for an empty code text
CodeHashMismatch(account, ethAcct) ==
    /\ Len(account.Code) # 0
    /\ ethAcct.codeHash # Keccak256Hash(Hex2Bytes(account.Code))

\* lines 91-93: the storage entries of one account, in the order given
RECURSIVE SetStorage(_, _, _)
SetStorage(store, address, storage) ==
    IF Len(storage) = 0 THEN store
    ELSE SetStorage(
             SetState(store, address, HexToHash(Head(storage).Key), HexToHash(Head(storage).Value)),
             address, Tail(storage))

\* lines 63-93 without the assertion of lines 72-79 that the account is an EthAccount
ImportAccountOfAnyKind(s, account) ==
    LET address == HexToAddress(account.Address)
        acc == GetAccount(address)
        code == Hex2Bytes(account.Code)
        codeHash == Keccak256Hash(code)
    IN IF acc.kind = "nil" THEN Panic(s, "account not found")
       ELSE IF CodeHashMismatch(account, acc)
       THEN Panic(s, "the evm state code doesn't match with the codehash")
       ELSE [s EXCEPT !.codeStore = SetCode(@, codeHash, code),
                      !.stateStore = SetStorage(@, address, account.Storage)]

\* lines 63-93 without the SetCode of line 89
ImportAccountCodeDropped(s, account) ==
    LET address == HexToAddress(account.Address)
        acc == GetAccount(address)
    IN IF acc.kind = "nil" THEN Panic(s, "account not found")
       ELSE IF acc.kind # "eth" THEN Panic(s, "account must be an EthAccount interface")
       ELSE IF CodeHashMismatch(account, acc)
       THEN Panic(s, "the evm state code doesn't match with the codehash")
       ELSE [s EXCEPT !.stateStore = SetStorage(@, address, account.Storage)]

\* lines 63-93: one account of the genesis state
ImportAccount(s, account) ==
    LET address == HexToAddress(account.Address)
        acc == GetAccount(address)
        code == Hex2Bytes(account.Code)
        codeHash == Keccak256Hash(code)
    IN IF acc.kind = "nil" THEN Panic(s, "account not found")
       ELSE IF acc.kind # "eth" THEN Panic(s, "account must be an EthAccount interface")
       ELSE IF CodeHashMismatch(account, acc)
       THEN Panic(s, "the evm state code doesn't match with the codehash")
       ELSE [s EXCEPT !.codeStore = SetCode(@, codeHash, code),
                      !.stateStore = SetStorage(@, address, account.Storage)]

\* lines 62-94: the accounts in the order given, up to the first panic
RECURSIVE ImportAccountList(_, _)
ImportAccountList(s, accounts) ==
    IF Len(accounts) = 0 \/ s.panic # NoPanic THEN s
    ELSE ImportAccountList(ImportAccount(s, Head(accounts)), Tail(accounts))

ImportAccounts(s, data) == ImportAccountList(s, data.Accounts)

\* lines 107-131: the bank metadata of the denom, a default one set when there is none
EnsureDenomMetaData(s, denom) ==
    IF s.bankMeta[denom] = "none" THEN [s EXCEPT !.bankMeta[denom] = "valid"] ELSE s

\* the deployment made whether or not there is a contract of the denom
NeedsNativeContractAlways(s, denom) == TRUE

\* line 102: whether the devnet deployment has to be made
NeedsNativeContract(s, denom) == ~FoundBankContractByDenom(s.vfcStore, denom)

\* the deployment of lines 96-150 made on every chain
DeployNativeContractOnAnyChain(s, data) ==
    LET denom == data.Params.EvmDenom
        withMeta == EnsureDenomMetaData(s, denom)
        deployed == DeployNewVirtualFrontierBankContract(withMeta, [Active |-> TRUE],
                        [MinDenom |-> denom, Exponent |-> 0, DisplayName |-> ""])
    IN IF ~NeedsNativeContract(s, denom) THEN s
       ELSE IF withMeta.bankMeta[denom] # "valid"
       THEN Panic(withMeta, "prepared bank denom metadata for native assets is invalid")
       ELSE IF deployed.err # NoError THEN Panic(deployed.state, deployed.err)
       ELSE deployed.state

\* lines 96-150: on a devnet, the bank contract of the EVM denom is deployed
\* unless there is one
DeployNativeContract(s, data) ==
    LET denom == data.Params.EvmDenom
        withMeta == EnsureDenomMetaData(s, denom)
        deployed == DeployNewVirtualFrontierBankContract(withMeta, [Active |-> TRUE],
                        [MinDenom |-> denom, Exponent |-> 0, DisplayName |-> ""])
    IN IF ~IsEthermintDevChain THEN s
       ELSE IF ~NeedsNativeContract(s, denom) THEN s
       ELSE IF withMeta.bankMeta[denom] # "valid"
       THEN Panic(withMeta, "prepared bank denom metadata for native assets is invalid")
       ELSE IF deployed.err # NoError THEN Panic(deployed.state, deployed.err)
       ELSE deployed.state

\* the import of lines 152-156 with its error dropped
ImportContractsErrorDropped(s, data) ==
    LET imported == GenesisImportVirtualFrontierContracts(s, data.VirtualFrontierContracts)
    IN IF Len(data.VirtualFrontierContracts) = 0 THEN s ELSE imported.state

\* lines 152-156: the contracts of the genesis state
ImportContracts(s, data) ==
    LET imported == GenesisImportVirtualFrontierContracts(s, data.VirtualFrontierContracts)
    IN IF Len(data.VirtualFrontierContracts) = 0 THEN s
       ELSE IF imported.err # NoError THEN Panic(imported.state, imported.err)
       ELSE imported.state

\* the check of lines 158-168 left out
CheckDeployerSequenceLeftOut(s, data) == s

\* lines 158-168: the deployer's sequence number is the number of contracts
CheckDeployerSequence(s, data) ==
    IF s.deployerSeq # Len(s.vfcStore)
    THEN Panic(s, "invalid sequence number for deployer account")
    ELSE s

\* whether InitGenesis is still running after the steps that left s
Running(s) == s.panic = NoPanic

\* lines 36-171: each step runs unless an earlier one panicked
InitGenesis(s, data) ==
    LET s1 == CheckEnableCreate(s, data)
        s2 == IF Running(s1) THEN SetParams(s1, data) ELSE s1
        s3 == IF Running(s2) THEN CheckModuleAccounts(s2, data) ELSE s2
        s4 == IF Running(s3) THEN ImportAccounts(s3, data) ELSE s3
        s5 == IF Running(s4) THEN DeployNativeContract(s4, data) ELSE s4
        s6 == IF Running(s5) THEN ImportContracts(s5, data) ELSE s5
    IN IF Running(s6) THEN CheckDeployerSequence(s6, data) ELSE s6

(***************************************************************************)
(* ExportGenesis (genesis.go lines 174-208)                                *)
(***************************************************************************)
\* lines 183-193: the genesis account of one EthAccount
ExportAccount(s, a) ==
    [Address |-> AddressString(a),
     Code |-> Bytes2Hex(GetCode(s.codeStore, GetAccount(a).codeHash)),
     Storage |-> GetAccountStorage(s.stateStore, a)]

\* lines 175-195: every EthAccount, in the account keeper's order
RECURSIVE ExportAccounts(_, _)
ExportAccounts(s, addrs) ==
    IF Len(addrs) = 0 THEN <<>>
    ELSE IF GetAccount(Head(addrs)).kind # "eth" THEN ExportAccounts(s, Tail(addrs))
    ELSE <<ExportAccount(s, Head(addrs))>> \o ExportAccounts(s, Tail(addrs))

\* the export of lines 197-201 with the inactive contracts skipped
ExportContractsActiveOnly(s) == SelectSeq(s.vfcStore, LAMBDA c : c.Active)

\* lines 197-201: every contract the iteration visits
ExportContracts(s) == s.vfcStore

ExportGenesis(s) ==
    [Accounts |-> ExportAccounts(s, AccountAddresses),
     Params |-> s.params,
     VirtualFrontierContracts |-> ExportContracts(s)]

(***************************************************************************)
(* The genesis states InitGenesis is given                                 *)
(***************************************************************************)
\* the sequences over S of length at most n
RECURSIVE SeqsUpTo(_, _)
SeqsUpTo(S, n) ==
    IF n = 0 THEN {<<>>}
    ELSE LET shorter == SeqsUpTo(S, n - 1)
         IN shorter \cup {Append(q, x) : q \in {r \in shorter : Len(r) = n - 1}, x \in S}

Denoms == {"aphoton", "adym"}

ParamsInputs ==
    {[EnableCreate |-> e, EvmDenom |-> d] : e \in BOOLEAN, d \in Denoms}
        \cup {[EnableCreate |-> FALSE, EvmDenom |-> ""]}

\* code texts: "", "60" and "zz"
CodeInputs == {<<>>, <<6, 0>>, <<NonHexChar, NonHexChar>>}

\* storage lists: none, and one that writes key 2 (written with fewer than 64
\* digits), then key 1, then key 2 again
StorageInputs ==
    {<<>>,
     <<[Key |-> [n |-> 2, full |-> FALSE], Value |-> HashString(1)],
       [Key |-> HashString(1), Value |-> HashString(0)],
       [Key |-> HashString(2), Value |-> HashString(0)]>>}

AccountAddressInputs == {AddressString(1), LowerHex(2), LowerHex(3), AddressString(4)}

AccountInputs ==
    {[Address |-> a, Code |-> c, Storage |-> st] :
        a \in AccountAddressInputs, c \in CodeInputs, st \in StorageInputs}

BankContract(a, active, denom) ==
    [Address |-> a, Active |-> active, Type |-> VirtualFrontierContractTypeBankContract,
     Metadata |-> [MinDenom |-> denom, Exponent |-> 0, DisplayName |-> ""]]

\* the addresses of the contracts of a genesis state
ContractAddressInputs == {CreateAddress(0), CreateAddress(1), CreateAddress(2)}

\* well-formed contracts, and contracts that break one rule of ValidateBasic each
ContractInputs ==
    {BankContract(LowerHex(a), active, d) :
        a \in ContractAddressInputs, active \in BOOLEAN, d \in Denoms}
    \cup {BankContract(LowerHex(ZeroAddress), TRUE, "aphoton"),
          BankContract(AddressString(CreateAddress(0)), TRUE, "aphoton"),
          BankContract(LowerHex(CreateAddress(0)), TRUE, ""),
          [BankContract(LowerHex(CreateAddress(0)), TRUE, "aphoton")
              EXCEPT !.Type = VirtualFrontierContractTypeUnknown]}

GenesisState(p, as, cs) == [Params |-> p, Accounts |-> as, VirtualFrontierContracts |-> cs]

PlainParams == [EnableCreate |-> FALSE, EvmDenom |-> "aphoton"]

\* the genesis states a fresh node is started with: any parameters with at most
\* one contract, either denom with any contracts, one account with one contract,
\* and any accounts (without contracts, which a node whose deployer starts at
\* sequence number 0 can import to the end)
FreshGenesisInputs ==
    {GenesisState(p, <<>>, cs) : p \in ParamsInputs, cs \in SeqsUpTo(ContractInputs, 1)}
    \cup {GenesisState([EnableCreate |-> FALSE, EvmDenom |-> d], <<>>, cs) :
            d \in Denoms, cs \in SeqsUpTo(ContractInputs, MaxVFC)}
    \cup {GenesisState(PlainParams, <<a>>, <<c>>) : a \in AccountInputs, c \in ContractInputs}
    \cup (IF deployerSeq = 0
          THEN {GenesisState(PlainParams, as, <<>>) : as \in SeqsUpTo(AccountInputs, MaxAccounts)}
          ELSE {})

\* the genesis states InitGenesis is given when it runs on a state it has left:
\* the same genesis state again, or one of parameters only
RerunGenesisInputs ==
    {genesis[1]} \cup {GenesisState(p, <<>>, <<>>) : p \in ParamsInputs}

GenesisInputs ==IF genesis = <<>> THEN FreshGenesisInputs ELSE RerunGenesisInputs

(***************************************************************************)
(* The specification of genesis import and export                          *)
(***************************************************************************)
NoBankMeta == [d \in Denoms |-> "none"]

SomeBankMeta == [d \in Denoms |-> IF d = "adym" THEN "invalid" ELSE "valid"]

AllModuleAccounts == {ModuleName, ModuleVirtualFrontierContractDeployerName}

Init ==
    /\ chainID \in ChainIDs
    /\ moduleAccounts \in SUBSET AllModuleAccounts
    /\ deployerSeq \in 0..MaxSeq
    /\ bankMeta \in {NoBankMeta, SomeBankMeta}
    \* a missing module account and bank metadata set before genesis are each
    \* looked at on one kind of node
    /\ moduleAccounts # AllModuleAccounts => chainID = "other" /\ deployerSeq = 0
    /\ bankMeta # NoBankMeta => IsEthermintDevChain /\ moduleAccounts = AllModuleAccounts
    /\ params = ZeroParams
    /\ codeStore = {}
    /\ stateStore = {}
    /\ vfcStore = <<>>
    /\ panic = NoPanic
    /\ genesis = <<>>
    /\ exported = <<>>
    /\ vfcInput = <<>>
    /\ vfcError = <<>>
    /\ callInput = <<>>
    /\ callResult = <<>>
    /\ pairInput = <<>>
    /\ pairResult = <<>>

\* InitGenesis on the state as it is; a node that panicked has stopped
RunInitGenesis ==
    /\ panic = NoPanic
    /\ \E data \in GenesisInputs :
        LET s == InitGenesis(State, data) IN
        /\ genesis' = <<data>>
        /\ params' = s.params
        /\ codeStore' = s.codeStore
        /\ stateStore' = s.stateStore
        /\ vfcStore' = s.vfcStore
        /\ bankMeta' = s.bankMeta
        /\ deployerSeq' = s.deployerSeq
        /\ panic' = s.panic
    /\ exported' = <<>>
    /\ UNCHANGED <<chainID, moduleAccounts, vfcInput, vfcError, callInput, callResult, pairInput, pairResult>>

\* ExportGenesis with the check of the deployer's sequence number that InitGenesis makes
RunExportGenesisChecked ==
    /\ panic = NoPanic
    /\ exported' = <<ExportGenesis(State)>>
    /\ panic' = IF deployerSeq # Len(vfcStore)
                THEN "invalid sequence number for deployer account" ELSE panic
    /\ UNCHANGED <<chainID, moduleAccounts, deployerSeq, bankMeta, params, codeStore,
                   stateStore, vfcStore, genesis, vfcInput, vfcError,
                   callInput, callResult, pairInput, pairResult>>

\* ExportGenesis on the state as it is
RunExportGenesis ==
    /\ panic = NoPanic
    /\ exported' = <<ExportGenesis(State)>>
    /\ UNCHANGED <<chainID, moduleAccounts, deployerSeq, bankMeta, params, codeStore,
                   stateStore, vfcStore, panic, genesis, vfcInput, vfcError,
                   callInput, callResult, pairInput, pairResult>>

Next == RunInitGenesis \/ RunExportGenesis

Spec == Init /\ [][Next]_vars

(***************************************************************************)
(* The specification of GetMethodFromSignature: a payload is drawn and the *)
(* method is applied to it.                                                *)
(***************************************************************************)
\* the selectors as bytes, and a payload that is none of them (deadbeef)
SelectorBytes ==
    {<<6, 253, 222, 3>>, <<149, 216, 155, 65>>, <<49, 60, 229, 103>>,
     <<24, 22, 13, 221>>, <<112, 160, 130, 49>>, <<169, 5, 156, 187>>}

DeadBeef == <<222, 173, 190, 239>>

\* what follows the first four bytes of a payload
TrailingBytes == SeqsUpTo({0, 255}, MaxPayload - 4)

\* payloads: the selectors and deadbeef cut short or followed by more bytes, and
\* the first half of one with the second half of another
CallInputs ==
    {SubSeq(sel, 1, n) : sel \in SelectorBytes \cup {DeadBeef}, n \in 0..4}
    \cup {sel \o rest : sel \in SelectorBytes \cup {DeadBeef}, rest \in TrailingBytes}
    \cup {SubSeq(a, 1, 2) \o SubSeq(b, 3, 4) : a, b \in SelectorBytes \cup {DeadBeef}}

\* the part of the state the pure functions do not touch
IdleGenesis ==
    /\ chainID = "other"
    /\ moduleAccounts = AllModuleAccounts
    /\ deployerSeq = 0
    /\ bankMeta = NoBankMeta
    /\ params = ZeroParams
    /\ codeStore = {}
    /\ stateStore = {}
    /\ vfcStore = <<>>
    /\ panic = NoPanic
    /\ genesis = <<>>
    /\ exported = <<>>

genesisVars ==
    <<chainID, moduleAccounts, deployerSeq, bankMeta, params, codeStore, stateStore,
      vfcStore, panic, genesis, exported>>

InitDispatch ==
    /\ IdleGenesis
    /\ vfcInput = <<>>
    /\ vfcError = <<>>
    /\ callInput \in CallInputs
    /\ callResult = <<>>
    /\ pairInput = <<>>
    /\ pairResult = <<>>

CallGetMethodFromSignature ==
    /\ callResult = <<>>
    /\ callResult' = <<GetMethodFromSignature(callInput)>>
    /\ UNCHANGED <<genesisVars, vfcInput, vfcError, callInput, pairInput, pairResult>>

NextDispatch == CallGetMethodFromSignature

SpecDispatch == InitDispatch /\ [][NextDispatch]_vars

\* m.GetMethodFromSignature(input): the method reads nothing of its receiver
MethodOf(m, input) == GetMethodFromSignature(input)

\* the receivers of the calls: metadata with and without a denom
ReceiverInputs ==
    {[MinDenom |-> d, Exponent |-> 18, DisplayName |-> "ETH"] : d \in {"", "wei"}}

\* two calls, each with a receiver and a payload
PairInputs ==
    {[m1 |-> m1, input1 |-> a, m2 |-> m2, input2 |-> b] :
        m1 \in ReceiverInputs, m2 \in ReceiverInputs, a \in CallInputs, b \in CallInputs}

InitDispatchPair ==
    /\ IdleGenesis
    /\ vfcInput = <<>>
    /\ vfcError = <<>>
    /\ callInput = <<>>
    /\ callResult = <<>>
    /\ pairInput \in {<<p>> : p \in PairInputs}
    /\ pairResult = <<>>

CallGetMethodFromSignatureTwice ==
    /\ pairResult = <<>>
    /\ pairResult' = <<MethodOf(pairInput[1].m1, pairInput[1].input1),
                       MethodOf(pairInput[1].m2, pairInput[1].input2)>>
    /\ UNCHANGED <<genesisVars, vfcInput, vfcError, callInput, callResult, pairInput>>

NextDispatchPair == CallGetMethodFromSignatureTwice

SpecDispatchPair == InitDispatchPair /\ [][NextDispatchPair]_vars

(***************************************************************************)
(* The specification of VirtualFrontierContract.ValidateBasic: a contract  *)
(* is drawn and the method is applied to it.                               *)
(***************************************************************************)
\* address texts: "" and texts of 20 or 21 bytes, with and without 0x, in
\* lowercase or not, spelling the zero address or another one
AddressTexts ==
    {[prefix |-> FALSE, nbytes |-> 0, upper |-> FALSE, id |-> ZeroAddress]}
    \cup {[prefix |-> p, nbytes |-> n, upper |-> u, id |-> a] :
            p \in BOOLEAN, n \in {AddressLength, AddressLength + 1}, u \in BOOLEAN,
            a \in {ZeroAddress, FirstContractAddress}}

\* a text of zeros holds no letter
WellFormedText(t) == t.id = ZeroAddress => ~t.upper

MetadataInputs ==
    [MinDenom : {"", "wei"}, Exponent : {0, 6, 18}, DisplayName : {"", "ETH"}]

ValidateInputs ==
    {[Address |-> t, Active |-> act, Type |-> ty, Metadata |-> m] :
        t \in {x \in AddressTexts : WellFormedText(x)}, act \in BOOLEAN,
        ty \in {VirtualFrontierContractTypeUnknown, VirtualFrontierContractTypeBankContract, 2},
        m \in MetadataInputs}

InitValidate ==
    /\ IdleGenesis
    /\ vfcInput \in {<<c>> : c \in ValidateInputs}
    /\ vfcError = <<>>
    /\ callInput = <<>>
    /\ callResult = <<>>
    /\ pairInput = <<>>
    /\ pairResult = <<>>

CallValidateBasic ==
    /\ vfcError = <<>>
    /\ vfcError' = <<ValidateBasic(vfcInput[1])>>
    /\ UNCHANGED <<genesisVars, vfcInput, callInput, callResult, pairInput, pairResult>>

NextValidate == CallValidateBasic

SpecValidate == InitValidate /\ [][NextValidate]_vars

(***************************************************************************)
(* Properties of genesis import and export                                 *)
(***************************************************************************)
\* InitGenesis has run, and this is the genesis state it was given
InitGenesisRan == genesis # <<>>

Data == genesis[1]

\* the last InitGenesis returned
Completed == InitGenesisRan /\ panic = NoPanic

\* a step of the specification that is a run of InitGenesis
InitGenesisStep == genesis' # <<>> /\ exported' = <<>>

AllWellFormed(contracts) == \A i \in 1..Len(contracts) : ValidateBasic(contracts[i]) = NoError

\* C1: whenever InitGenesis returns, the deployer's sequence number is the number
\* of contracts in the registry (bootstrap and bulk import included); and a run
\* that bulk-imports N well-formed contracts with a deployer starting at sequence
\* number 0 either returns with sequence number N or panics.
C1_SequenceIsContractCount ==
    /\ [](Completed => deployerSeq = Len(vfcStore))
    /\ [][(/\ InitGenesisStep
           /\ deployerSeq = 0
           /\ Len(genesis'[1].VirtualFrontierContracts) > 0
           /\ AllWellFormed(genesis'[1].VirtualFrontierContracts)
           /\ panic' = NoPanic)
          => deployerSeq' = Len(genesis'[1].VirtualFrontierContracts)]_vars

\* C1 witness: a run that bulk-imported two contracts returned, with sequence number 2
C1_Witness ==
    /\ Completed
    /\ Len(Data.VirtualFrontierContracts) = 2
    /\ Len(vfcStore) = 2
    /\ deployerSeq = 2

\* the accounts of the genesis state whose code text is not empty and does not
\* hash to the code hash of the EthAccount at the address
MismatchedAccounts(data) ==
    {i \in 1..Len(data.Accounts) :
        LET account == data.Accounts[i]
            acc == GetAccount(HexToAddress(account.Address))
        IN /\ acc.kind = "eth"
           /\ Len(account.Code) # 0
           /\ Keccak256Hash(Hex2Bytes(account.Code)) # acc.codeHash}

CodeHashPanic == "the evm state code doesn't match with the codehash"

\* C2: InitGenesis panics when an account of the genesis state has a non-empty
\* code whose hash is not the code hash of its EthAccount; and the code hash check
\* panics for such an account only, never for one whose code is empty.
C2_CodeHashCheck ==
    InitGenesisRan =>
        /\ MismatchedAccounts(Data) # {} => panic # NoPanic
        /\ panic = CodeHashPanic => MismatchedAccounts(Data) # {}

\* C2 witness: a genesis state with an account of empty code, whose EthAccount
\* records the hash of a code, was imported and InitGenesis returned
C2_Witness ==
    /\ Completed
    /\ \E i \in 1..Len(Data.Accounts) :
          /\ Len(Data.Accounts[i].Code) = 0
          /\ GetAccount(HexToAddress(Data.Accounts[i].Address)).codeHash # EmptyCodeHash

\* a state with the native accounts (their code hashes and the deployer's sequence
\* number) and the bank metadata of s, where the EVM module has written nothing
Fresh(s) ==
    [s EXCEPT !.params = ZeroParams, !.codeStore = {}, !.stateStore = {},
              !.vfcStore = <<>>, !.panic = NoPanic]

\* ExportGenesis of s, InitGenesis of the export into a fresh state and
\* ExportGenesis again: the second InitGenesis returns, and the accounts (with
\* code and storage) and contracts of the two exports are equal
RoundTrips(s) ==
    LET first == ExportGenesis(s)
        reimported == InitGenesis(Fresh(s), first)
        second == ExportGenesis(reimported)
    IN /\ reimported.panic = NoPanic
       /\ second.Accounts = first.Accounts
       /\ second.VirtualFrontierContracts = first.VirtualFrontierContracts

\* C3: every state a returning InitGenesis leaves round-trips, on every chain
C3_RoundTrip == Completed => RoundTrips(State)

EnableCreatePanic == "enable create is not allowed on Dymension chains"

\* C4: a run of InitGenesis on a Dymension chain with a genesis state whose
\* parameters enable create panics and leaves parameters, code, storage,
\* contracts, bank metadata and the deployer's sequence number as they were.
C4_EnableCreateRejected ==
    [][(/\ InitGenesisStep
        /\ IsOneOfDymensionChains
        /\ genesis'[1].Params.EnableCreate)
       => /\ panic' = EnableCreatePanic
          /\ UNCHANGED <<params, codeStore, stateStore, vfcStore, bankMeta, deployerSeq>>]_vars

\* C4 witness: a Dymension node that holds parameters and a contract was given a
\* genesis state that enables create, and InitGenesis panicked on it
C4_Witness ==
    /\ InitGenesisRan
    /\ IsOneOfDymensionChains
    /\ Data.Params.EnableCreate
    /\ panic = EnableCreatePanic
    /\ params # ZeroParams
    /\ vfcStore # <<>>

(***************************************************************************)
(* Properties of GetMethodFromSignature                                    *)
(***************************************************************************)
\* the method of a four-byte selector, byte by byte
MethodOfSelector(b) ==
    CASE b = <<6, 253, 222, 3>> -> VFBCmName
      [] b = <<149, 216, 155, 65>> -> VFBCmSymbol
      [] b = <<49, 60, 229, 103>> -> VFBCmDecimals
      [] b = <<24, 22, 13, 221>> -> VFBCmTotalSupply
      [] b = <<112, 160, 130, 49>> -> VFBCmBalanceOf
      [] b = <<169, 5, 156, 187>> -> VFBCmTransfer
      [] OTHER -> VFBCmUnknown

\* C5: GetMethodFromSignature returns (Unknown, false) for a payload of fewer
\* than 4 bytes; for a longer one it returns the method of the first four bytes
\* with found = TRUE when they are one of the six selectors, and (Unknown, false)
\* otherwise.
C5_Dispatch ==
    callResult # <<>> =>
        LET r == callResult[1] IN
        IF Len(callInput) < 4
        THEN r = [method |-> VFBCmUnknown, found |-> FALSE]
        ELSE LET m == MethodOfSelector(SubSeq(callInput, 1, 4)) IN
             r = [method |-> m, found |-> m # VFBCmUnknown]

\* C5 witness: the transfer selector followed by more bytes was dispatched to transfer
C5_Witness ==
    /\ Len(callInput) > 4
    /\ callResult = <<[method |-> VFBCmTransfer, found |-> TRUE]>>

(***************************************************************************)
(* Properties of the devnet deployment and of the contracts kept           *)
(***************************************************************************)
Records(contracts) == {contracts[i] : i \in 1..Len(contracts)}

\* a bank contract of the denom is among the records, active or not
HasBankContractOf(store, denom) ==
    \E c \in Records(store) :
        c.Type = VirtualFrontierContractTypeBankContract /\ c.Metadata.MinDenom = denom

MetadataPanic == "prepared bank denom metadata for native assets is invalid"

\* a run of InitGenesis in which the devnet deployment did nothing: the
\* deployer's sequence number and the bank metadata are as before, every record
\* kept was there before or comes from the genesis state, and the panic, if
\* any, is not that of the deployment
NoDeployment ==
    /\ deployerSeq' = deployerSeq
    /\ bankMeta' = bankMeta
    /\ Records(vfcStore') \subseteq
          Records(vfcStore) \cup Records(genesis'[1].VirtualFrontierContracts)
    /\ panic' # MetadataPanic

HasActiveBankContractOf(store, denom) ==
    \E c \in Records(store) :
        /\ c.Active
        /\ c.Type = VirtualFrontierContractTypeBankContract
        /\ c.Metadata.MinDenom = denom

IsNilAddress(c) ==
    c.Address.prefix /\ c.Address.nbytes = AddressLength /\ c.Address.id = ZeroAddress

IsMalformedAddress(c) ==
    c.Address.nbytes # AddressLength \/ ~c.Address.prefix \/ c.Address.upper

AddressErrors ==
    {"malformed address", "address must start with 0x", "address must be in lowercase"}

IsUnspecifiedType(c) == c.Type \notin {VirtualFrontierContractTypeBankContract}

IsInvalidMetadata(c) == c.Metadata.MinDenom = ""

\* C7: ValidateBasic reports the first rule violated in the order nil address,
\* malformed address, type, metadata: the zero address gives "nil address"
\* whatever the type and the metadata are, and a wrong type is reported before
\* invalid metadata.
C7_ValidateBasicOrder ==
    vfcError # <<>> =>
        LET c == vfcInput[1]
            err == vfcError[1]
        IN IF IsNilAddress(c) THEN err = "nil address"
           ELSE IF IsMalformedAddress(c) THEN err \in AddressErrors
           ELSE IF IsUnspecifiedType(c) THEN err = "type must be specified"
           ELSE IF IsInvalidMetadata(c) THEN err = "metadata does not pass validation"
           ELSE err = NoError

\* C7 witness: the zero address with an unspecified type and invalid metadata
\* was validated and "nil address" reported
C7_Witness ==
    /\ vfcError = <<"nil address">>
    /\ IsUnspecifiedType(vfcInput[1])
    /\ IsInvalidMetadata(vfcInput[1])

\* a record that satisfies every rule
IsValidRecord(c) ==
    ~IsNilAddress(c) /\ ~IsMalformedAddress(c) /\ ~IsUnspecifiedType(c) /\ ~IsInvalidMetadata(c)

\* C8: a run of InitGenesis that starts with no contracts and returns leaves only
\* valid records (type specified, well-formed non-nil address, valid metadata);
\* and InitGenesis panics on every genesis state that holds an invalid record.
C8_OnlyValidRecords ==
    /\ [][(InitGenesisStep /\ vfcStore = <<>> /\ panic' = NoPanic)
          => \A c \in Records(vfcStore') : IsValidRecord(c)]_vars
    /\ []((/\ InitGenesisRan
           /\ \E c \in Records(Data.VirtualFrontierContracts) : ~IsValidRecord(c))
          => panic # NoPanic)

\* C8 witness: a devnet node that started with no contracts deployed one and
\* imported another, and InitGenesis returned
C8_Witness ==
    /\ IsEthermintDevChain
    /\ Completed
    /\ Len(Data.VirtualFrontierContracts) = 1
    /\ Len(vfcStore) = 2

\* the active bank contracts of a denom among the records
ActiveBankContractsOf(store, denom) ==
    {i \in 1..Len(store) :
        /\ store[i].Active
        /\ store[i].Type = VirtualFrontierContractTypeBankContract
        /\ store[i].Metadata.MinDenom = denom}

\* C9: whenever InitGenesis has returned, there is at most one active bank
\* contract of each denom
C9_OneActiveContractPerDenom ==
    Completed => \A d \in Denoms : Cardinality(ActiveBankContractsOf(vfcStore, d)) <= 1

\* the records a run of InitGenesis added
Added == SubSeq(vfcStore', Len(vfcStore) + 1, Len(vfcStore'))

\* C10: a run of InitGenesis changes the deployer's sequence number only by the
\* devnet deployment (by one, on a devnet, with the record deployed), so on any
\* other chain it keeps it; and a run that returns has added the contracts of the
\* genesis state in their order, after the record deployed if there is one.
C10_ImportKeepsSequence ==
    [][InitGenesisStep =>
        LET contracts == genesis'[1].VirtualFrontierContracts
            deployed == deployerSeq' - deployerSeq
        IN /\ ~IsEthermintDevChain => deployerSeq' = deployerSeq
           /\ deployed \in {0, 1}
           /\ SubSeq(vfcStore', 1, Len(vfcStore)) = vfcStore
           /\ deployed = 1 =>
                 /\ Len(Added) >= 1
                 /\ Added[1].Address = LowerHex(CreateAddress(deployerSeq))
                 /\ Added[1].Metadata.MinDenom = genesis'[1].Params.EvmDenom
           /\ panic' = NoPanic =>
                 SubSeq(Added, deployed + 1, Len(Added)) = contracts]_vars

\* C10 witness: a node of another chain whose deployer is at sequence number 2
\* imported two different contracts, and they are the registry in that order
C10_Witness ==
    /\ ~IsEthermintDevChain
    /\ Completed
    /\ deployerSeq = 2
    /\ Len(vfcStore) = 2
    /\ vfcStore[1] # vfcStore[2]
    /\ vfcStore = Data.VirtualFrontierContracts

(***************************************************************************)
(* Properties of ExportGenesis                                             *)
(***************************************************************************)
\* ExportGenesis has run on the state as it is
Exported == exported # <<>>

\* C11: the contracts of an export are the registry, record for record in its
\* order, inactive records included.
C11_ExportsEveryContract ==
    Exported => exported[1].VirtualFrontierContracts = vfcStore

\* C11 witness: a registry of two contracts, one of them inactive, was exported
C11_Witness ==
    /\ Exported
    /\ Len(exported[1].VirtualFrontierContracts) = 2
    /\ \E c \in Records(exported[1].VirtualFrontierContracts) : ~c.Active

\* a step of the specification that is a run of ExportGenesis
ExportGenesisStep == exported' # <<>>

\* the EthAccounts whose code hash has no code in the store
CodelessAccounts ==
    {a \in {1, 2} : \A e \in codeStore : e[1] # GetAccount(a).codeHash}

\* C12: a run of ExportGenesis returns and leaves the state as it was, whatever the
\* state: it does not look at the deployer's sequence number, and an EthAccount
\* whose code hash has no code in the store is exported with empty code.
C12_ExportNeverPanics ==
    [][ExportGenesisStep =>
        /\ UNCHANGED <<params, codeStore, stateStore, vfcStore, bankMeta, deployerSeq,
                       panic, genesis>>
        /\ Len(exported'[1].Accounts) = 2
        /\ \A i \in 1..2 :
              HexToAddress(exported'[1].Accounts[i].Address) \in CodelessAccounts
                  => exported'[1].Accounts[i].Code = <<>>]_vars

\* C12 witness: a node on which InitGenesis never ran, whose deployer is at
\* sequence number 2 with no contract in the registry, was exported; the account
\* with the hash of a code and no code stored has empty code in the export
C12_Witness ==
    /\ Exported
    /\ genesis = <<>>
    /\ deployerSeq = 2
    /\ vfcStore = <<>>
    /\ GetAccount(1).codeHash # EmptyCodeHash
    /\ exported[1].Accounts[1].Code = <<>>

(***************************************************************************)
(* Properties of the accounts and module accounts InitGenesis requires     *)
(***************************************************************************)
\* the kind of native account at the address of an account of the genesis state
KindOf(account) == GetAccount(HexToAddress(account.Address)).kind

\* the accounts of the genesis state with no EthAccount at their address
BadAccounts(data) == {i \in 1..Len(data.Accounts) : KindOf(data.Accounts[i]) # "eth"}

FirstBadAccount(data) == CHOOSE i \in BadAccounts(data) : \A j \in BadAccounts(data) : i <= j

AccountPanicOf(account) ==
    IF KindOf(account) = "nil" THEN "account not found"
    ELSE "account must be an EthAccount interface"

\* the code of an account of the genesis state, as a code store entry
CodeEntryOf(account) ==
    <<Keccak256Hash(Hex2Bytes(account.Code)), Hex2Bytes(account.Code)>>

\* the storage of an account of the genesis state, as state store entries
StorageEntriesOf(account) ==
    {<<HexToAddress(account.Address), HexToHash(account.Storage[k].Key),
       HexToHash(account.Storage[k].Value)>> : k \in 1..Len(account.Storage)}

\* the genesis state passes what InitGenesis does before it looks at the accounts
ReachesAccounts(data) ==
    /\ ~(IsOneOfDymensionChains /\ data.Params.EnableCreate)
    /\ data.Params.EvmDenom # ""
    /\ moduleAccounts = AllModuleAccounts

\* C13: a run of InitGenesis on a genesis state with an account that has no native
\* account or no EthAccount at its address panics; the code and storage written
\* are those of the accounts before the first such account only, no contract is
\* written, and when that account is the first the panic is the one of its kind
\* and nothing of the accounts is written.
C13_AccountMustBeEthAccount ==
    [][(InitGenesisStep /\ BadAccounts(genesis'[1]) # {}) =>
        LET data == genesis'[1]
            bad == FirstBadAccount(data)
        IN /\ panic' # NoPanic
           /\ \A e \in codeStore' \ codeStore :
                 \E j \in 1..(bad - 1) : e = CodeEntryOf(data.Accounts[j])
           /\ \A e \in stateStore' \ stateStore :
                 \E j \in 1..(bad - 1) : e \in StorageEntriesOf(data.Accounts[j])
           /\ vfcStore' = vfcStore
           /\ deployerSeq' = deployerSeq
           /\ (bad = 1 /\ ReachesAccounts(data)) =>
                 /\ panic' = AccountPanicOf(data.Accounts[1])
                 /\ codeStore' = codeStore
                 /\ stateStore' = stateStore]_vars

\* C13 witness: a genesis state of an EthAccount with storage followed by an
\* account that is no EthAccount, with code and storage of its own, was given:
\* InitGenesis wrote the storage of the first and panicked on the second
C13_Witness ==
    /\ InitGenesisRan
    /\ panic = "account must be an EthAccount interface"
    /\ Len(Data.Accounts) = 2
    /\ KindOf(Data.Accounts[1]) = "eth"
    /\ Len(Data.Accounts[2].Storage) > 0
    /\ stateStore \subseteq StorageEntriesOf(Data.Accounts[1])
    /\ stateStore # {}

\* the panic of the first module account found missing
ModuleAccountPanic ==
    IF ModuleName \notin moduleAccounts THEN "the EVM module account has not been set"
    ELSE "the VFC deployer account has not been set"

\* C14: a run of InitGenesis on a node without the EVM module account or without
\* the deployer's module account panics and writes no code, storage, contract,
\* bank metadata or sequence number; when the parameters of the genesis state
\* pass, they are stored and the panic is that of the missing module account.
C14_ModuleAccountsRequired ==
    [][(InitGenesisStep /\ moduleAccounts # AllModuleAccounts) =>
        LET data == genesis'[1] IN
        /\ panic' # NoPanic
        /\ UNCHANGED <<codeStore, stateStore, vfcStore, bankMeta, deployerSeq>>
        /\ (~(IsOneOfDymensionChains /\ data.Params.EnableCreate) /\ data.Params.EvmDenom # "")
              => panic' = ModuleAccountPanic /\ params' = data.Params]_vars

\* C14 witness: on a node with the EVM module account and without the deployer's,
\* InitGenesis of a genesis state with an account stored the parameters and
\* panicked, with no code written
C14_Witness ==
    /\ InitGenesisRan
    /\ ModuleName \in moduleAccounts
    /\ panic = "the VFC deployer account has not been set"
    /\ params = Data.Params
    /\ params # ZeroParams
    /\ Len(Data.Accounts) > 0
    /\ KindOf(Data.Accounts[1]) = "eth"
    /\ codeStore = {}

(***************************************************************************)
(* Properties of ValidateBasic                                             *)
(***************************************************************************)
\* ValidateBasic has run on the contract drawn, with this error
Validated == vfcError # <<>>

\* C15: ValidateBasic reports "malformed address" for an address text that is not
\* of 20 bytes (the empty text included), "start with 0x" for a text of 20 bytes
\* without the prefix, and "lowercase" for a text of 20 bytes with the prefix
\* that holds an uppercase hex digit, whatever the type and the metadata are.
C15_AddressTextRules ==
    Validated =>
        LET t == vfcInput[1].Address
            err == vfcError[1]
        IN /\ t.nbytes # 20 => err = "malformed address"
           /\ (t.nbytes = 20 /\ ~t.prefix) => err = "address must start with 0x"
           /\ (t.nbytes = 20 /\ t.prefix /\ t.upper) => err = "address must be in lowercase"

\* C15 witness: an address text of 20 bytes with the prefix and an uppercase
\* digit, in a record that is valid otherwise, was rejected for its case
C15_Witness ==
    /\ vfcError = <<"address must be in lowercase">>
    /\ vfcInput[1].Address.prefix
    /\ vfcInput[1].Address.nbytes = 20
    /\ ~IsUnspecifiedType(vfcInput[1])
    /\ ~IsInvalidMetadata(vfcInput[1])

\* the address text of the record passes the rules on the address
HasValidAddress(c) == ~IsNilAddress(c) /\ ~IsMalformedAddress(c)

\* C16: ValidateBasic rejects every record of type Unknown (the zero value of the
\* field), and with "type must be specified" when its address is valid, whether
\* its metadata is valid or not.
C16_UnknownTypeRejected ==
    (Validated /\ vfcInput[1].Type = VirtualFrontierContractTypeUnknown) =>
        /\ vfcError[1] # NoError
        /\ HasValidAddress(vfcInput[1]) => vfcError[1] = "type must be specified"

\* C16 witness: a record of type Unknown with a valid address and valid metadata
\* was rejected
C16_Witness ==
    /\ Validated
    /\ vfcInput[1].Type = VirtualFrontierContractTypeUnknown
    /\ HasValidAddress(vfcInput[1])
    /\ vfcInput[1].Metadata.MinDenom = "wei"
    /\ vfcError[1] = "type must be specified"

\* C17: for a bank contract with a valid address, ValidateBasic reports "metadata
\* does not pass validation" exactly when the denom of the metadata is empty and
\* no error otherwise, whatever the exponent and the display name are.
C17_MetadataDenomOnly ==
    (Validated /\ HasValidAddress(vfcInput[1]) /\ ~IsUnspecifiedType(vfcInput[1])) =>
        vfcError[1] = IF vfcInput[1].Metadata.MinDenom = ""
                      THEN "metadata does not pass validation" ELSE NoError

\* C17 witness: a bank contract with a denom, exponent 0 and no display name
\* passed ValidateBasic
C17_Witness ==
    /\ vfcError = <<NoError>>
    /\ vfcInput[1].Metadata.MinDenom = "wei"
    /\ vfcInput[1].Metadata.Exponent = 0
    /\ vfcInput[1].Metadata.DisplayName = ""

(***************************************************************************)
(* GetMethodFromSignature as a function of the first four bytes            *)
(***************************************************************************)
\* C18: two calls of GetMethodFromSignature with payloads of 4 bytes or more that
\* agree on the first four bytes return the same, whatever follows the four
\* bytes and whatever the receivers are; and every call returns found = TRUE
\* exactly when the method returned is not Unknown.
C18_FirstFourBytesOnly ==
    pairResult # <<>> =>
        LET p == pairInput[1] IN
        /\ (/\ Len(p.input1) >= 4
            /\ Len(p.input2) >= 4
            /\ \A i \in 1..4 : p.input1[i] = p.input2[i])
              => pairResult[1] = pairResult[2]
        /\ \A k \in 1..2 : pairResult[k].found <=> pairResult[k].method # VFBCmUnknown

\* C18 witness: the transfer selector alone, on metadata without a denom, and the
\* transfer selector followed by another byte, on metadata with one, were both
\* dispatched to transfer
C18_Witness ==
    /\ pairResult # <<>>
    /\ Len(pairInput[1].input1) = 4
    /\ Len(pairInput[1].input2) > 4
    /\ pairInput[1].m1.MinDenom = ""
    /\ pairInput[1].m2.MinDenom # ""
    /\ pairResult[1] = [method |-> VFBCmTransfer, found |-> TRUE]
    /\ pairResult[2] = [method |-> VFBCmTransfer, found |-> TRUE]

(***************************************************************************)
(* The code InitGenesis stores                                             *)
(***************************************************************************)
\* the code bytes an account of the genesis state supplies
CodeBytesOf(account) == Hex2Bytes(account.Code)

\* C19: whenever InitGenesis has returned, the code store gives, under the hash
\* of the code bytes of every account of the genesis state, those bytes; and for
\* every account with a non-empty code text, the code store gives those bytes
\* under the code hash of the EthAccount at its address.
C19_CodeStoredUnderItsHash ==
    Completed =>
        \A i \in 1..Len(Data.Accounts) :
            LET account == Data.Accounts[i] IN
            /\ GetCode(codeStore, Keccak256Hash(CodeBytesOf(account))) = CodeBytesOf(account)
            /\ Len(account.Code) # 0 =>
                  GetCode(codeStore, GetAccount(HexToAddress(account.Address)).codeHash)
                      = CodeBytesOf(account)

\* C19 witness: an account with the code text "60" was imported and the export
\* that followed gives the account with that code
C19_Witness ==
    /\ Completed
    /\ Exported
    /\ \E i \in 1..Len(Data.Accounts) :
          /\ Data.Accounts[i].Code = <<6, 0>>
          /\ HexToAddress(Data.Accounts[i].Address) = 1
    /\ exported[1].Accounts[1].Code = <<6, 0>>

====
